---------------------------- MODULE Spec2Model ----------------------------
(***************************************************************************)
(* Shared-address links: the Graph Builder (prep.py) and the Filter Engine *)
(* (app.py, the "Filtering" block).                                        *)
(*                                                                         *)
(* prep.py is a script that runs top to bottom; `pc` is its position.      *)
(* Spec is the builder run on one input table; SpecFilter is the filter    *)
(* block of app.py run on one loaded nodes/edges pair.                     *)
(*                                                                         *)
(* Tables whose row order no statement below depends on (addr_stats,       *)
(* nodes, edges) are sets of rows: each of them is the result of a groupby *)
(* and so has one row per key.  top_shared, which the code sorts, is a     *)
(* sequence.  Ids "person:<i>" and "addr:<g>" are the pairs <<"person",i>> *)
(* and <<"addr",g>>.  Cells are non-null.  An Amount cell is a sequence of  *)
(* characters; the amounts parsed from it are whole numbers.               *)
(***************************************************************************)
EXTENDS Integers, Sequences, FiniteSets

\* ------------------------------------------------------------------ bounds
MaxRows == 3
MaxThreshold == 3

\* ------------------------------------------------------ program constants
\* prep.py line 11
N_MIN_AT_ADDRESS == 2

\* ------------------------------------------------------------ value pools
Names == {"Alice", "Bob"}
Types == {"Individual", "PAC"}
\* in ascending string order, which groupby's key sort and AddrRank use
AddressOrder == <<"1 Main St", "2 Oak Ave">>
Addresses == {AddressOrder[i] : i \in 1..Len(AddressOrder)}
GroupIds == {0, 1}
Digits == <<"0", "1", "2", "3", "4", "5", "6", "7", "8", "9">>
None == "none"
\* a file as prep.py found it: not written by this run
OldFile(empty) == [fresh |-> FALSE, rows |-> empty]
\* a file this run wrote with to_csv
NewFile(table) == [fresh |-> TRUE, rows |-> table]

Required == {"Contributor Name", "Contributor Type", "full_address"}

\* Amount cells as character sequences: "$5", "$1,000", "5", "N/A"
CellFive == <<"$", "5">>
CellThousand == <<"$", "1", ",", "0", "0", "0">>
CellPlain == <<"7">>
CellBad == <<"N", "/", "A">>

VARIABLES
    pc,               \* position of prep.py
    err,              \* the exception that ended prep.py, or None
    columns,          \* the columns of the input CSV
    df,               \* the data frame: a sequence of rows
    threshold,        \* N_MIN_AT_ADDRESS
    addr_stats,       \* prep.py addr_stats
    shared_addr_ids,  \* prep.py shared_addr_ids
    nodes,            \* prep.py nodes
    edges,            \* prep.py edges
    top_shared,       \* prep.py top_shared
    nodes_csv,        \* data/nodes.csv
    edges_csv,        \* data/edges.csv
    top_csv,          \* data/top_shared_addresses.csv
    app_pc,           \* position of app.py
    app_nodes,        \* app.py nodes
    app_edges,        \* app.py edges
    sel_types,        \* app.py sel_types
    min_contribs,     \* app.py min_contribs
    sel_amt,          \* app.py sel_amt
    addr_keep,        \* app.py addr_keep
    nodes_f,          \* app.py nodes_f
    edges_f,          \* app.py edges_f
    app_err           \* the exception raised by the filter block, or None

prepVars == <<pc, err, columns, df, threshold, addr_stats, shared_addr_ids,
              nodes, edges, top_shared, nodes_csv, edges_csv, top_csv>>
appVars == <<app_pc, app_nodes, app_edges, sel_types, min_contribs, sel_amt,
             addr_keep, nodes_f, edges_f, app_err>>
vars == <<prepVars, appVars>>

\* ------------------------------------------------------ Amount normalization
\* str.replace(c, "", regex=False)
StrReplace(s, c) == SelectSeq(s, LAMBDA x : x # c)

Stripped(cell) == StrReplace(StrReplace(cell, "$"), ",")

DigitValue(c) == (CHOOSE i \in 1..Len(Digits) : Digits[i] = c) - 1

IsDigit(c) == \E i \in 1..Len(Digits) : Digits[i] = c

\* float(s) succeeds: on the cells modelled, a non-empty run of digits
Parseable(s) == Len(s) > 0 /\ \A i \in 1..Len(s) : IsDigit(s[i])

RECURSIVE ToFloat(_)
ToFloat(s) ==
    IF Len(s) = 0 THEN 0
    ELSE 10 * ToFloat(SubSeq(s, 1, Len(s) - 1)) + DigitValue(s[Len(s)])

\* ------------------------------------------------------------ table helpers
Col(d, f) == [i \in 1..Len(d) |-> d[i][f]]

RECURSIVE SumOver(_, _)
\* sum of amt[i] over the row indices I
SumOver(amt, I) ==
    IF I = {} THEN 0
    ELSE LET i == CHOOSE x \in I : TRUE
         IN amt[i] + SumOver(amt, I \ {i})

\* the first row holding the value of row i
FirstPos(col, i) ==
    CHOOSE j \in 1..i : col[j] = col[i] /\ \A k \in 1..(j - 1) : col[k] # col[i]

\* pd.factorize(col)[0]: the first-occurrence index of each row's value
Factorize(col) ==
    [i \in 1..Len(col) |->
        Cardinality({FirstPos(col, k) : k \in 1..Len(col)}
                    \cap 1..(FirstPos(col, i) - 1))]

AddrRank(a) == CHOOSE i \in 1..Len(AddressOrder) : AddressOrder[i] = a

\* --------------------------------------------------------- prep.py, by line
\* lines 17-23: the Amount column parsed
Normalized(d) ==
    [i \in 1..Len(d) |-> [d[i] EXCEPT !.amount = ToFloat(Stripped(d[i].amount))]]

\* lines 33-34
Defaults(d, cols) ==
    IF "Amount" \notin cols
    THEN [i \in 1..Len(d) |-> [d[i] EXCEPT !.amount = 0]]
    ELSE d

\* lines 39-40
WithGroupId(d, cols) ==
    IF "group_id" \notin cols
    THEN [i \in 1..Len(d) |-> [d[i] EXCEPT !.gid = Factorize(Col(d, "addr"))[i]]]
    ELSE d

\* lines 43-48
AddrStats(d) ==
    LET keys == {<<d[i].gid, d[i].addr>> : i \in 1..Len(d)}
        grp(k) == {i \in 1..Len(d) : d[i].gid = k[1] /\ d[i].addr = k[2]}
    IN {[group_id |-> k[1],
         full_address |-> k[2],
         contributors |-> Cardinality({d[i].name : i \in grp(k)}),
         total_amount |-> SumOver(Col(d, "amount"), grp(k)),
         tx_count |-> Cardinality(grp(k))] : k \in keys}

\* line 51 with == for >=: only the addresses with exactly n contributors
SharedAddrIdsExact(stats, n) ==
    {s.group_id : s \in {t \in stats : t.contributors = n}}

\* line 51
SharedAddrIds(stats, n) ==
    {s.group_id : s \in {t \in stats : t.contributors >= n}}

\* line 52
DfShared(d, shared) == SelectSeq(d, LAMBDA r : r.gid \in shared)

\* line 55
ContribId(ds) == [i \in 1..Len(ds) |-> <<"person", Factorize(Col(ds, "name"))[i]>>]

\* line 56
AddressId(ds) == [i \in 1..Len(ds) |-> <<"addr", ds[i].gid>>]

\* lines 59-65
NodesContrib(ds) ==
    LET cid == ContribId(ds)
        keys == {<<cid[i], ds[i].name, ds[i].ctype>> : i \in 1..Len(ds)}
        grp(k) == {i \in 1..Len(ds) :
                      cid[i] = k[1] /\ ds[i].name = k[2] /\ ds[i].ctype = k[3]}
    IN {[id |-> k[1],
         label |-> k[2],
         type |-> "contributor",
         contrib_type |-> k[3],
         total_amount |-> SumOver(Col(ds, "amount"), grp(k)),
         tx_count |-> Cardinality(grp(k))] : k \in keys}

\* lines 68-74 (the contributors column is dropped by the selection of line 79)
NodesAddr(ds) ==
    LET aid == AddressId(ds)
        keys == {<<aid[i], ds[i].addr>> : i \in 1..Len(ds)}
        grp(k) == {i \in 1..Len(ds) : aid[i] = k[1] /\ ds[i].addr = k[2]}
    IN {[id |-> k[1],
         label |-> k[2],
         type |-> "address",
         contrib_type |-> None,
         total_amount |-> SumOver(Col(ds, "amount"), grp(k)),
         tx_count |-> Cardinality(grp(k))] : k \in keys}

\* lines 77-80
Nodes(ds) == NodesContrib(ds) \cup NodesAddr(ds)

\* lines 83-89
Edges(ds) ==
    LET cid == ContribId(ds)
        aid == AddressId(ds)
        keys == {<<cid[i], aid[i], ds[i].addr>> : i \in 1..Len(ds)}
        grp(k) == {i \in 1..Len(ds) :
                      cid[i] = k[1] /\ aid[i] = k[2] /\ ds[i].addr = k[3]}
    IN {[source |-> k[1],
         target |-> k[2],
         edge_type |-> "at_address",
         address |-> k[3],
         tx_count |-> Cardinality(grp(k)),
         total_amount |-> SumOver(Col(ds, "amount"), grp(k))] : k \in keys}

\* sort_values(["contributors", "total_amount"], ascending=[False, False]) is
\* stable, so ties keep groupby's ascending (group_id, full_address) order
SortsBefore(a, b) ==
    \/ a.contributors > b.contributors
    \/ /\ a.contributors = b.contributors
       /\ \/ a.total_amount > b.total_amount
          \/ /\ a.total_amount = b.total_amount
             /\ \/ a.group_id < b.group_id
                \/ /\ a.group_id = b.group_id
                   /\ AddrRank(a.full_address) < AddrRank(b.full_address)

\* lines 92-93
TopShared(stats, shared) ==
    LET kept == {s \in stats : s.group_id \in shared}
        rank(s) == 1 + Cardinality({t \in kept : SortsBefore(t, s)})
    IN [k \in 1..Cardinality(kept) |-> CHOOSE s \in kept : rank(s) = k]

\* ---------------------------------------------------------- prep.py, a run
\* app.py is not running
AppIdle ==
    /\ app_pc = "idle"
    /\ app_nodes = {}
    /\ app_edges = {}
    /\ sel_types = {}
    /\ min_contribs = 0
    /\ sel_amt = <<0, 0>>
    /\ addr_keep = {}
    /\ nodes_f = {}
    /\ edges_f = {}
    /\ app_err = None

\* the Amount columns tried for a table of n rows
AmountColumns(n) ==
    {[i \in 1..n |-> CellFive],
     [i \in 1..n |-> IF i = 1 THEN CellThousand ELSE CellPlain],
     [i \in 1..n |-> IF i = n THEN CellBad ELSE CellFive]}

\* the column sets tried for the input CSV
ColumnSets ==
    {Required \cup {"Amount"},
     Required \cup {"Amount", "group_id"},
     Required}
    \cup {(Required \ {c}) \cup {"Amount"} : c \in Required}

Pool(cols, c, values) == IF c \in cols THEN values ELSE {None}

\* df right after read_csv (line 15) of a CSV with the columns cols: one to
\* MaxRows rows; a supplied group_id column gives each address a group
InputTables(cols) ==
    UNION {
        {[i \in 1..n |->
            [name |-> key[i][1],
             ctype |-> key[i][2],
             addr |-> key[i][3],
             amount |-> amt[i],
             gid |-> IF "group_id" \in cols THEN g[key[i][3]] ELSE None]] :
           key \in [1..n -> Pool(cols, "Contributor Name", Names)
                            \X Pool(cols, "Contributor Type", Types)
                            \X Pool(cols, "full_address", Addresses)],
           amt \in IF "Amount" \in cols
                   THEN AmountColumns(n)
                   ELSE {[i \in 1..n |-> None]},
           g \in IF "group_id" \in cols
                 THEN [Addresses -> GroupIds]
                 ELSE {[a \in Addresses |-> None]}}
        : n \in 1..MaxRows}

Init ==
    /\ pc = "normalize"
    /\ err = None
    /\ columns \in ColumnSets
    /\ df \in InputTables(columns)
    /\ threshold \in 1..MaxThreshold
    /\ addr_stats = {}
    /\ shared_addr_ids = {}
    /\ nodes = {}
    /\ edges = {}
    /\ top_shared = <<>>
    /\ nodes_csv = OldFile({})
    /\ edges_csv = OldFile({})
    /\ top_csv = OldFile(<<>>)
    /\ AppIdle

\* lines 17-23 in a script that creates nodes.csv before it reads the input
NormalizeAfterOpeningOutput ==
    /\ pc = "normalize"
    /\ nodes_csv' = NewFile({})
    /\ IF "Amount" \notin columns
       THEN /\ pc' = "failed"
            /\ err' = "KeyError: Amount"
            /\ df' = df
       ELSE IF \E i \in 1..Len(df) : ~Parseable(Stripped(df[i].amount))
       THEN /\ pc' = "failed"
            /\ err' = "ValueError: could not convert string to float"
            /\ df' = df
       ELSE /\ pc' = "validate"
            /\ err' = err
            /\ df' = Normalized(df)
    /\ UNCHANGED <<columns, threshold, addr_stats, shared_addr_ids, nodes, edges,
                   top_shared, edges_csv, top_csv>>
    /\ UNCHANGED appVars

\* lines 17-23
Normalize ==
    /\ pc = "normalize"
    /\ IF "Amount" \notin columns
       THEN /\ pc' = "failed"
            /\ err' = "KeyError: Amount"
            /\ df' = df
       ELSE IF \E i \in 1..Len(df) : ~Parseable(Stripped(df[i].amount))
       THEN /\ pc' = "failed"
            /\ err' = "ValueError: could not convert string to float"
            /\ df' = df
       ELSE /\ pc' = "validate"
            /\ err' = err
            /\ df' = Normalized(df)
    /\ UNCHANGED <<columns, threshold, addr_stats, shared_addr_ids, nodes, edges,
                   top_shared, nodes_csv, edges_csv, top_csv>>
    /\ UNCHANGED appVars

\* lines 27-30
Validate ==
    /\ pc = "validate"
    /\ IF Required \ columns # {}
       THEN pc' = "failed" /\ err' = "ValueError: Missing required columns"
       ELSE pc' = "aggregate" /\ err' = err
    /\ UNCHANGED <<columns, df, threshold, addr_stats, shared_addr_ids, nodes,
                   edges, top_shared, nodes_csv, edges_csv, top_csv>>
    /\ UNCHANGED appVars

\* lines 33-93
Aggregate ==
    /\ pc = "aggregate"
    /\ LET d == WithGroupId(Defaults(df, columns), columns)
           stats == AddrStats(d)
           shared == SharedAddrIds(stats, threshold)
           ds == DfShared(d, shared)
       IN /\ df' = d
          /\ addr_stats' = stats
          /\ shared_addr_ids' = shared
          /\ nodes' = Nodes(ds)
          /\ edges' = Edges(ds)
          /\ top_shared' = TopShared(stats, shared)
    /\ pc' = "write_nodes"
    /\ UNCHANGED <<err, columns, threshold, nodes_csv, edges_csv, top_csv>>
    /\ UNCHANGED appVars

\* line 96
WriteNodes ==
    /\ pc = "write_nodes"
    /\ nodes_csv' = NewFile(nodes)
    /\ pc' = "write_edges"
    /\ UNCHANGED <<err, columns, df, threshold, addr_stats, shared_addr_ids,
                   nodes, edges, top_shared, edges_csv, top_csv>>
    /\ UNCHANGED appVars

\* line 97
WriteEdges ==
    /\ pc = "write_edges"
    /\ edges_csv' = NewFile(edges)
    /\ pc' = "write_top"
    /\ UNCHANGED <<err, columns, df, threshold, addr_stats, shared_addr_ids,
                   nodes, edges, top_shared, nodes_csv, top_csv>>
    /\ UNCHANGED appVars

\* line 98
WriteTop ==
    /\ pc = "write_top"
    /\ top_csv' = NewFile(top_shared)
    /\ pc' = "done"
    /\ UNCHANGED <<err, columns, df, threshold, addr_stats, shared_addr_ids,
                   nodes, edges, top_shared, nodes_csv, edges_csv>>
    /\ UNCHANGED appVars

Next ==
    \/ Normalize
    \/ Validate
    \/ Aggregate
    \/ WriteNodes
    \/ WriteEdges
    \/ WriteTop

Spec == Init /\ [][Next]_vars

\* ------------------------------------------------- app.py, the filter block
MaxNodes == 3
MaxMinContribs == 3

\* total_amount values of the loaded nodes, and the ends of the amount range
AmountPool == {50, 100}
PersonIds == {<<"person", 0>>, <<"person", 1>>}
AddrIds == {<<"addr", 0>>, <<"addr", 1>>}

\* rows a nodes.csv can hold, by the columns lines 86-100 read
NodePool ==
    {[id |-> i, type |-> "contributor", contrib_type |-> t, total_amount |-> a] :
        i \in PersonIds, t \in Types, a \in AmountPool}
    \cup
    {[id |-> i, type |-> "address", contrib_type |-> None, total_amount |-> a] :
        i \in AddrIds, a \in AmountPool}

\* rows an edges.csv can hold, by the columns lines 86-100 read
EdgePool == {[source |-> p, target |-> a] : p \in PersonIds, a \in AddrIds}

\* line 86: edges.groupby("target").agg(contributors=("source", "nunique"))
AddrContribs(es) ==
    {[target |-> t, contributors |-> Cardinality({e.source : e \in {x \in es : x.target = t}})] :
        t \in {e.target : e \in es}}

\* line 87 with > for >=
AddrKeepStrict(es, m) ==
    {r.target : r \in {c \in AddrContribs(es) : c.contributors > m}}

\* line 87
AddrKeep(es, m) ==
    {r.target : r \in {c \in AddrContribs(es) : c.contributors >= m}}

\* line 89
IsAddr(n) == n.type = "address"

\* line 90
IsPerson(n) == n.type = "contributor"

\* lines 92-94 without the default of line 92: an empty selection keeps nobody
PersonsOkNoDefault(n, sel) == IsPerson(n) /\ n.contrib_type \in sel

\* lines 92-94
PersonsOk(n, sel) ==
    IF sel # {}
    THEN IsPerson(n) /\ n.contrib_type \in sel
    ELSE IsPerson(n)

\* between() with the two ends put in order first
BetweenOrdered(x, lo, hi) ==
    IF lo <= hi THEN lo <= x /\ x <= hi ELSE hi <= x /\ x <= lo

\* Series.between(lo, hi), inclusive on both ends
Between(x, lo, hi) == lo <= x /\ x <= hi

\* lines 96-97
NodesF(ns, keep, sel, amt) ==
    LET picked == {n \in ns : (IsAddr(n) /\ n.id \in keep) \/ PersonsOk(n, sel)}
    IN {n \in picked : Between(n.total_amount, amt[1], amt[2])}

\* line 100 without the test of the target
EdgesFSourceOnly(es, nf) ==
    LET keep_ids == {n.id : n \in nf}
    IN {e \in es : e.source \in keep_ids}

\* lines 99-100
EdgesF(es, nf) ==
    LET keep_ids == {n.id : n \in nf}
    IN {e \in es : e.source \in keep_ids /\ e.target \in keep_ids}

\* prep.py is not running
PrepIdle ==
    /\ pc = "idle"
    /\ err = None
    /\ columns = {}
    /\ df = <<>>
    /\ threshold = N_MIN_AT_ADDRESS
    /\ addr_stats = {}
    /\ shared_addr_ids = {}
    /\ nodes = {}
    /\ edges = {}
    /\ top_shared = <<>>
    /\ nodes_csv = OldFile({})
    /\ edges_csv = OldFile({})
    /\ top_csv = OldFile(<<>>)

\* after load_data (line 64): nodes and edges hold the two tables
InitFilter ==
    /\ PrepIdle
    /\ app_pc = "filters"
    /\ app_nodes \in {ns \in SUBSET NodePool : Cardinality(ns) <= MaxNodes}
    /\ app_edges \in SUBSET EdgePool
    /\ sel_types = {}
    /\ min_contribs = 0
    /\ sel_amt = <<0, 0>>
    /\ addr_keep = {}
    /\ nodes_f = {}
    /\ edges_f = {}
    /\ app_err = None

\* lines 67-100: the widgets return the filter parameters, then the filter
\* block runs; it raises nothing.  The parameters are any set of types, any
\* threshold from 1 and any pair of range ends; the sliders of lines 74 and
\* 79 return some of these.
Filtering ==
    /\ app_pc = "filters"
    /\ \E types \in SUBSET Types, m \in 1..MaxMinContribs,
          amt \in AmountPool \X AmountPool :
          LET keep == AddrKeep(app_edges, m)
              nf == NodesF(app_nodes, keep, types, amt)
          IN /\ sel_types' = types
             /\ min_contribs' = m
             /\ sel_amt' = amt
             /\ addr_keep' = keep
             /\ nodes_f' = nf
             /\ edges_f' = EdgesF(app_edges, nf)
    /\ app_pc' = "shown"
    /\ UNCHANGED <<app_nodes, app_edges, app_err>>
    /\ UNCHANGED prepVars

NextFilter == Filtering

SpecFilter == InitFilter /\ [][NextFilter]_vars

\* ------------------------------------------------------------------ claims
\* prep.py got past the aggregation (line 93)
Built == pc \in {"write_nodes", "write_edges", "write_top", "done"}

Shown == app_pc = "shown"

NodeIds(ns) == {n.id : n \in ns}

\* the distinct contributor names in the records of address a
NamesAt(d, a) == {d[i].name : i \in {j \in 1..Len(d) : d[j].addr = a}}

\* the distinct sources of the edges into target t
SourcesOf(es, t) == {e.source : e \in {x \in es : x.target = t}}

InRange(n) == sel_amt[1] <= n.total_amount /\ n.total_amount <= sel_amt[2]

TypeSelected(n) == sel_types = {} \/ n.contrib_type \in sel_types

\* C1: every edge of edges_f has its source id and its target id among the
\* ids of nodes_f, whatever the tables and the filter parameters.
C1_ReferentialClosure ==
    Shown =>
        \A e \in edges_f :
            e.source \in NodeIds(nodes_f) /\ e.target \in NodeIds(nodes_f)

\* C1 witness: the filter kept an edge and dropped another one.
C1_Witness ==
    /\ Shown
    /\ edges_f # {}
    /\ edges_f # app_edges

\* C2: no two rows of the built nodes table share an id.
C2_NodeIdsUnique ==
    Built => \A a \in nodes : \A b \in nodes : a.id = b.id => a = b

\* C3: an address is an Address node iff its records name at least
\* `threshold` distinct contributors; a contributor is a Contributor node iff
\* they have a record at such an address; there is an edge exactly for each
\* (contributor, retained address) pair that has a record.
C3_RetentionRule ==
    Built =>
        LET retained(a) == Cardinality(NamesAt(df, a)) >= threshold
            rows == 1..Len(df)
        IN /\ \A a \in Addresses :
                  (\E n \in nodes : IsAddr(n) /\ n.label = a) <=> retained(a)
           /\ \A c \in Names :
                  (\E n \in nodes : IsPerson(n) /\ n.label = c)
                      <=> (\E i \in rows : df[i].name = c /\ retained(df[i].addr))
           /\ \A c \in Names : \A a \in Addresses :
                  (\E e \in edges :
                      /\ e.address = a
                      /\ \E n \in nodes : IsPerson(n) /\ n.id = e.source /\ n.label = c)
                      <=> /\ retained(a)
                          /\ \E i \in rows : df[i].name = c /\ df[i].addr = a

\* C4: the edges table has at most one row per (source, target) pair, and
\* that row's tx_count is the number of records of the contributor at the
\* address.
C4_EdgeUnique ==
    Built =>
        LET ds == DfShared(df, shared_addr_ids)
            cid == ContribId(ds)
            aid == AddressId(ds)
        IN /\ \A a \in edges : \A b \in edges :
                  (a.source = b.source /\ a.target = b.target) => a = b
           /\ \A e \in edges :
                  e.tx_count = Cardinality({i \in 1..Len(ds) :
                                   cid[i] = e.source /\ aid[i] = e.target})

\* C5: an input with the three required columns and no Amount column builds:
\* the run does not fail, and every total_amount it produces is 0.
C5_AmountOptional ==
    (Required \subseteq columns /\ "Amount" \notin columns) =>
        /\ pc # "failed"
        /\ Built =>
              /\ \A n \in nodes : n.total_amount = 0
              /\ \A e \in edges : e.total_amount = 0
              /\ \A k \in 1..Len(top_shared) : top_shared[k].total_amount = 0

C7_NoPartialOutput ==
    LET written == nodes_csv.fresh \/ edges_csv.fresh \/ top_csv.fresh
    IN /\ pc = "failed" =>
             /\ ~written
             /\ nodes_csv = OldFile({})
             /\ edges_csv = OldFile({})
             /\ top_csv = OldFile(<<>>)
       /\ written =>
             /\ pc \in {"write_edges", "write_top", "done"}
             /\ err = None
             /\ Required \cup {"Amount"} \subseteq columns
             /\ \A i \in 1..Len(df) : df[i].amount \in Nat
             /\ nodes_csv = NewFile(nodes)
             /\ edges_csv \in {OldFile({}), NewFile(edges)}
             /\ top_csv \in {OldFile(<<>>), NewFile(top_shared)}

\* C7 witness: the run failed on a missing required column, after the
\* amounts were parsed.
C7_Witness ==
    /\ pc = "failed"
    /\ err = "ValueError: Missing required columns"
    /\ Required \ columns # {}
    /\ Len(df) = MaxRows

\* C8: a Contributor node is in nodes_f iff its type is selected (or nothing
\* is selected) and its total_amount is in the range; an Address node is in
\* nodes_f iff its distinct-source count in the full edges table is at least
\* min_contribs and its total_amount is in the range.
C8_FilterComposition ==
    Shown =>
        /\ nodes_f \subseteq app_nodes
        /\ \A n \in app_nodes :
              /\ IsPerson(n) =>
                    (n \in nodes_f <=> (TypeSelected(n) /\ InRange(n)))
              /\ IsAddr(n) =>
                    (n \in nodes_f <=>
                        /\ Cardinality(SourcesOf(app_edges, n.id)) >= min_contribs
                        /\ InRange(n))

\* C8 witness: with a type selected, an Address node is kept, another is
\* dropped by the threshold, and a Contributor node is dropped by its type.
C8_Witness ==
    /\ Shown
    /\ sel_types # {}
    /\ \E n \in nodes_f : IsAddr(n)
    /\ \E n \in app_nodes \ nodes_f : IsAddr(n) /\ InRange(n)
    /\ \E n \in app_nodes \ nodes_f : IsPerson(n) /\ InRange(n)

\* every address of the edges table has fewer than min_contribs sources
NoAddressMeetsThreshold ==
    \A t \in {e.target : e \in app_edges} :
        Cardinality(SourcesOf(app_edges, t)) < min_contribs

\* C9: when no address of the edges table reaches min_contribs, the filter
\* raises nothing, nodes_f has no Address node, edges_f is empty, and every
\* Contributor node matching the type and amount filters is in nodes_f.
C9_EmptyResultStable ==
    (Shown /\ NoAddressMeetsThreshold) =>
        /\ app_err = None
        /\ \A n \in nodes_f : ~IsAddr(n)
        /\ edges_f = {}
        /\ \A n \in app_nodes :
              (IsPerson(n) /\ TypeSelected(n) /\ InRange(n)) => n \in nodes_f

\* C9 witness: edges and an Address node in range were loaded, no address
\* reaches the threshold, and a Contributor node is still listed.
C9_Witness ==
    /\ Shown
    /\ NoAddressMeetsThreshold
    /\ app_edges # {}
    /\ \E n \in app_nodes : IsAddr(n) /\ InRange(n)
    /\ \E n \in nodes_f : IsPerson(n)

\* the addresses of the records retained under the threshold t
RetainedAddresses(t) ==
    {r.addr : r \in
        {df[i] : i \in {j \in 1..Len(df) : df[j].gid \in SharedAddrIds(addr_stats, t)}}}

\* C10: for thresholds t1 <= t2 the addresses (and group ids) retained under
\* t2 are among those retained under t1; `threshold` is one of the two.
C10_ThresholdMonotone ==
    Built =>
        \A t \in 1..MaxThreshold :
            /\ t <= threshold =>
                  /\ shared_addr_ids \subseteq SharedAddrIds(addr_stats, t)
                  /\ {n.label : n \in {m \in nodes : IsAddr(m)}}
                        \subseteq RetainedAddresses(t)
            /\ t >= threshold =>
                  /\ SharedAddrIds(addr_stats, t) \subseteq shared_addr_ids
                  /\ RetainedAddresses(t)
                        \subseteq {n.label : n \in {m \in nodes : IsAddr(m)}}

\* C10 witness: a run with threshold 2 retained an address and dropped
\* another that threshold 1 retains.
C10_Witness ==
    /\ Built
    /\ threshold = N_MIN_AT_ADDRESS
    /\ shared_addr_ids # {}
    /\ shared_addr_ids # SharedAddrIds(addr_stats, 1)

=============================================================================
